---- MODULE Spec2Model ----
(***************************************************************************)
(* Library-change detection and notification pipeline of Noona-Portal.     *)
(*                                                                         *)
(* Modelled program text:                                                  *)
(*   scheduler            src/unnamed/part_007  (libraryNotifications.mjs) *)
(*   detector/dispatcher  src/unnamed/part_017  lines 219-312 (postKavita) *)
(*   catalog client       src/kavita/initKavita.mjs  (fetchData)           *)
(*   notified-set store   src/noona/vault/initVault.mjs lines 172-308      *)
(*                                                                         *)
(* Every `await` of the async functions is a point where another timer     *)
(* callback can run; the code between two awaits is one atomic action.     *)
(* fetchData and waitForVaultReady touch no state shared with the claims   *)
(* between their own awaits, so each call is one action whose result is    *)
(* computed by an operator from the responses the environment gives.       *)
(***************************************************************************)
EXTENDS Integers, Sequences, FiniteSets, TLC

VARIABLES
    catalog,      \* the catalog served by Kavita: item and library counts
    budget,       \* what the environment does in this run (see Plans)
    durable,      \* ids held by the secrets service (notifications/kavita)
    sentBefore,   \* ids delivered to the chat channel by earlier processes
    restarts,     \* number of process restarts so far
    interval,     \* module variable `interval`: 0 (null) or a timer handle
    armed,        \* interval timers currently armed in the event loop
    timeouts,     \* pending setTimeout callbacks of the initial check
    nSetups,      \* setupLibraryNotifications calls made by this process
    setups,       \* per call: position and configuration
    notifiedIds,  \* per call: the Set object created by loadNotifiedIds
    sentOk,       \* per Set object: ids of pages whose send succeeded
    jwtToken,     \* KavitaAPI.jwtToken is cached
    cycles,       \* runCheck invocations in flight
    last,         \* how the most recently ended runCheck ended
    fIn,          \* isolated fetchData call: token and responses
    fOut,         \* isolated fetchData call: result
    dIn,          \* isolated detection: library, clock, lookback, set
    dOut,         \* isolated detection: items selected as new
    sIn,          \* isolated saveNotifiedIds call: polls, response, payload
    sOut,         \* isolated saveNotifiedIds call: store and return value
    tIn,          \* isolated getVaultToken call: cached token and response
    tOut,         \* isolated getVaultToken call: result
    wait,         \* isolated waitForVaultReady call: position and clock
    legacy        \* the scheduler of the versions that return a handle

vars == <<catalog, budget, durable, sentBefore, restarts, interval, armed,
          timeouts, nSetups, setups, notifiedIds, sentOk, jwtToken, cycles,
          last, fIn, fOut, dIn, dOut, sIn, sOut, tIn, tOut, wait, legacy>>

fixVars == <<catalog, budget>>

mainVars == <<fixVars, durable, sentBefore, restarts, interval, armed,
              timeouts, nSetups, setups, notifiedIds, sentOk, jwtToken, cycles,
              last>>

(***************************************************************************)
(* Bounds of the model                                                     *)
(***************************************************************************)
NumItems == 12
NumLibs == 2
MaxCycles == 2
MaxSetups == 2
MaxRestarts == 1
MaxFetchCalls == 2
MaxSaveCalls == 2
MaxPolls == 2
MaxWaitCalls == 2
MaxHours == 25
MaxManual == 2
Now0 == 200

(***************************************************************************)
(* Program constants                                                       *)
(***************************************************************************)
PageSize == 10
DefaultLookbackHours == 168
VaultTimeoutMs == 10000
VaultPollMs == 500

(***************************************************************************)
(* The catalog                                                             *)
(***************************************************************************)
Libs == 1..NumLibs
Gens == 1..(MaxSetups + 1)
Slots == 1..MaxCycles

\* series.libraryId
LibOf(i) == ((i - 1) % catalog.libs) + 1

\* series.created, in hours: at Now0 the first item of library 1 is one hour
\* older than the default cutoff, the second item of library 1 lies exactly
\* on it, the others are recent.
Created(i) == IF i = 1 THEN Now0 - DefaultLookbackHours - 1
              ELSE IF i = 1 + catalog.libs THEN Now0 - DefaultLookbackHours
              ELSE Now0 - 50 + i

Range(s) == {s[k] : k \in 1..Len(s)}

Min(a, b) == IF a < b THEN a ELSE b

(***************************************************************************)
(* parseInt(string, 10)                                                    *)
(***************************************************************************)
Digits == {"0", "1", "2", "3", "4", "5", "6", "7", "8", "9"}

DigitVal(ch) == CASE ch = "0" -> 0 [] ch = "1" -> 1 [] ch = "2" -> 2
                  [] ch = "3" -> 3 [] ch = "4" -> 4 [] ch = "5" -> 5
                  [] ch = "6" -> 6 [] ch = "7" -> 7 [] ch = "8" -> 8
                  [] ch = "9" -> 9

NaN == [nan |-> TRUE, val |-> 0]

Num(n) == [nan |-> FALSE, val |-> n]

RECURSIVE SkipSpace(_)
SkipSpace(s) == IF s # <<>> /\ Head(s) = " " THEN SkipSpace(Tail(s)) ELSE s

RECURSIVE DigitPrefix(_)
DigitPrefix(s) == IF s # <<>> /\ Head(s) \in Digits
                  THEN <<Head(s)>> \o DigitPrefix(Tail(s))
                  ELSE <<>>

RECURSIVE DigitsVal(_, _)
DigitsVal(s, acc) == IF s = <<>> THEN acc
                     ELSE DigitsVal(Tail(s), acc * 10 + DigitVal(Head(s)))

ParseInt(str) ==
    LET t == SkipSpace(str)
        neg == t # <<>> /\ Head(t) = "-"
        u == IF t # <<>> /\ Head(t) \in {"-", "+"} THEN Tail(t) ELSE t
        d == DigitPrefix(u)
    IN  IF d = <<>> THEN NaN
        ELSE Num(IF neg THEN 0 - DigitsVal(d, 0) ELSE DigitsVal(d, 0))

(***************************************************************************)
(* KavitaAPI.fetchData (initKavita.mjs)                                    *)
(*   token     jwtToken is cached when the call starts                     *)
(*   authOk    outcome of authenticate() before the request (no token)     *)
(*   r1        response to the request: "ok", "401" or "err"               *)
(*   reauthOk  outcome of authenticate() after a 401                       *)
(*   r2        response to the retried request                             *)
(* The result tells how the call ends (out: "data" returned, "null"        *)
(* returned, or "throw") and counts the calls it made.                     *)
(***************************************************************************)
Responses == {"ok", "401", "err"}

\* The responses of the environment to one call of the pipeline; a response
\* the call never asks for is left at its first value.
FetchEnvs ==
    {e \in [authOk : BOOLEAN, r1 : Responses, reauthOk : BOOLEAN,
            r2 : Responses] :
        /\ (~e.authOk => e.r1 = "ok")
        /\ (e.r1 # "401" => ~e.reauthOk)
        /\ (~e.reauthOk => e.r2 = "ok")}

FetchResult(out, token, requests, auths, reauths) ==
    [out |-> out, token |-> token, requests |-> requests,
     auths |-> auths, reauths |-> reauths]

\* authenticate(): jwtToken is assigned only when the post succeeds
Authenticate(token, ok) == IF ok THEN TRUE ELSE token

\* Variant: the retry is made whether or not the re-authentication succeeded
FetchDataRetryAlways(token, authOk, r1, reauthOk, r2) ==
    LET auths == IF token THEN 0 ELSE 1
        t1 == IF token THEN token ELSE Authenticate(token, authOk)
    IN  IF ~token /\ ~authOk
        THEN FetchResult("null", t1, 0, auths, 0)
        ELSE IF r1 = "ok"
        THEN FetchResult("data", t1, 1, auths, 0)
        ELSE IF r1 = "401"
        THEN LET t2 == Authenticate(t1, reauthOk)
             IN  IF r2 = "ok"
                 THEN FetchResult("data", t2, 2, auths, 1)
                 ELSE FetchResult("throw", t2, 2, auths, 1)
        ELSE FetchResult("null", t1, 1, auths, 0)

FetchData(token, authOk, r1, reauthOk, r2) ==
    LET auths == IF token THEN 0 ELSE 1
        t1 == IF token THEN token ELSE Authenticate(token, authOk)
    IN  IF ~token /\ ~authOk
        THEN FetchResult("null", t1, 0, auths, 0)
        ELSE IF r1 = "ok"
        THEN FetchResult("data", t1, 1, auths, 0)
        ELSE IF r1 = "401"
        THEN LET t2 == Authenticate(t1, reauthOk)
             IN  IF ~reauthOk
                 THEN FetchResult("null", t2, 1, auths, 1)
                 ELSE IF r2 = "ok"
                 THEN FetchResult("data", t2, 2, auths, 1)
                 ELSE FetchResult("throw", t2, 2, auths, 1)
        ELSE FetchResult("null", t1, 1, auths, 0)

(***************************************************************************)
(* getVaultToken (vault.mjs): cached is "none" or the cached token; resp   *)
(* is the answer to the token request: a token, "empty" or "err".          *)
(***************************************************************************)
Tokens == {"t1", "t2"}

TokenResponses == Tokens \cup {"empty", "err"}

\* Variant: the token is requested again although one is cached
GetVaultTokenFresh(cached, resp) ==
    IF resp \in Tokens
    THEN [ret |-> resp, cached |-> resp, requests |-> 1]
    ELSE [ret |-> "null", cached |-> cached, requests |-> 1]

GetVaultToken(cached, resp) ==
    IF cached # "none"
    THEN [ret |-> cached, cached |-> cached, requests |-> 0]
    ELSE IF resp \in Tokens
    THEN [ret |-> resp, cached |-> resp, requests |-> 1]
    ELSE [ret |-> "null", cached |-> cached, requests |-> 1]

(***************************************************************************)
(* Notified-set store (initVault.mjs, v2)                                  *)
(***************************************************************************)
\* Health polls of one waitForVaultReady call: the first healthy poll is
\* poll number k (0: no poll is healthy) and every poll takes d ms.
PollLatencies == {0, VaultTimeoutMs - VaultPollMs}

\* The secrets service during one load or save: the health polls and the
\* outcome of the request; a request that is never made is left at FALSE.
VaultEnvs ==
    {v \in [k : 0..MaxPolls, d : PollLatencies, ok : BOOLEAN] :
        /\ (v.k = 0 => (v.d = 0 /\ ~v.ok))
        /\ (v.d # 0 => (v.k = MaxPolls /\ ~v.ok))}

\* The answer to the update request of a save: "ack" (data.success is
\* true), "nack" (a response that does not report success) or "err".
SaveResponses == {"ack", "nack", "err"}

\* The secrets service during one save
SaveEnvs ==
    {v \in [k : 0..MaxPolls, d : PollLatencies, resp : SaveResponses] :
        /\ (v.k = 0 => (v.d = 0 /\ v.resp = "err"))
        /\ (v.d # 0 => (v.k = MaxPolls /\ v.resp = "err"))}

RECURSIVE PollLoop(_, _, _, _)
PollLoop(elapsed, n, k, d) ==
    IF ~(elapsed < VaultTimeoutMs) THEN [ready |-> FALSE, polls |-> n - 1]
    ELSE IF n = k THEN [ready |-> TRUE, polls |-> n]
    ELSE PollLoop(elapsed + d + VaultPollMs, n + 1, k, d)

WaitForVaultReady(k, d) == PollLoop(0, 1, k, d)

\* Variant: the stored list is returned whatever the health check said
GetNotifiedIdsStale(ready, readOk, store) == store

\* getNotifiedIds: [] when the service is not ready or the read fails
GetNotifiedIds(ready, readOk, store) ==
    IF ~ready THEN {} ELSE IF readOk THEN store ELSE {}

\* Variant: the new Set starts empty, the store is not consulted
LoadNotifiedIdsNone(ready, readOk, store) == {}

\* loadNotifiedIds: new Set(ids)
LoadNotifiedIds(ready, readOk, store) == GetNotifiedIds(ready, readOk, store)

LoadStatus(ready, readOk) ==
    IF ~ready THEN "unready" ELSE IF readOk THEN "ok" ELSE "readerr"

\* Variant: every answered update request counts as a successful save
SaveNotifiedIdsLoose(ready, resp, payload, store) ==
    [store |-> IF ready /\ resp = "ack" THEN payload ELSE store,
     ret |-> ready /\ resp # "err"]

\* saveNotifiedIds: false when the service is not ready or the request
\* fails, else res.data?.success === true; an acknowledged update replaces
\* the stored list by the payload
SaveNotifiedIds(ready, resp, payload, store) ==
    [store |-> IF ready /\ resp = "ack" THEN payload ELSE store,
     ret |-> ready /\ resp = "ack"]

(***************************************************************************)
(* Change detection and paging (postKavita.mjs)                            *)
(***************************************************************************)
AllSeries == [i \in 1..catalog.items |-> i]

\* getSeriesByLibrary: the response filtered on series.libraryId
GetSeriesByLibrary(result, lib) == SelectSeq(result, LAMBDA i : LibOf(i) = lib)

\* parseInt(process.env.KAVITA_LOOKBACK_HOURS, 10) || 168
LookbackHours(env) ==
    LET p == ParseInt(env)
    IN  IF p.nan \/ p.val = 0 THEN DefaultLookbackHours ELSE p.val

Cutoff(t, env) == t - LookbackHours(env)

\* Variant: an item created exactly at the cutoff is not recent
IsRecentStrict(created, cutoff) == created > cutoff

IsRecent(created, cutoff) == created >= cutoff

CheckForNewItems(series, t, env) ==
    SelectSeq(series, LAMBDA i : IsRecent(Created(i), Cutoff(t, env)))

Fresh(items, notified) == SelectSeq(items, LAMBDA i : i \notin notified)

\* One pass of the library loop (lines 270-271) over a fetch result
NewInLibrary(result, lib, t, env, notified) ==
    Fresh(CheckForNewItems(GetSeriesByLibrary(result, lib), t, env), notified)

\* Array.prototype.sort with (a, b) => created(b) - created(a): stable
RECURSIVE InsertDesc(_, _)
InsertDesc(sorted, x) ==
    IF sorted = <<>> THEN <<x>>
    ELSE IF Created(Head(sorted)) >= Created(x)
    THEN <<Head(sorted)>> \o InsertDesc(Tail(sorted), x)
    ELSE <<x>> \o sorted

RECURSIVE SortNewestFirst(_)
SortNewestFirst(s) ==
    IF s = <<>> THEN <<>>
    ELSE InsertDesc(SortNewestFirst(SubSeq(s, 1, Len(s) - 1)), s[Len(s)])

NumBatches(n) == (n + PageSize - 1) \div PageSize

\* Variant: the tenth item of every page is left out
BatchOfNine(s, i) ==
    SubSeq(s, (i - 1) * PageSize + 1, Min(i * PageSize - 1, Len(s)))

\* newItems.slice(i * 10, i * 10 + 10), pages counted from 1
Batch(s, i) == SubSeq(s, (i - 1) * PageSize + 1, Min(i * PageSize, Len(s)))

\* Variant: a failed send leaves the page loop
MorePagesIfSent(page, count, ok) == page < count /\ ok

\* for (let i = 0; i < batches.length; i++): the catch around channel.send
\* does not leave the loop, whatever the outcome ok of the send
MorePages(page, count, ok) == page < count

\* Variant: the page's ids replace the set
MarkBatchReplace(notified, batch) == Range(batch)

\* Variant: the page's ids are not added
MarkBatchNone(notified, batch) == notified

\* batches[i].forEach(item => notifiedIds.add(item.id))
MarkBatch(notified, batch) == notified \cup Range(batch)

\* Variant: runCheck saves after every cycle
RunCheckSavesAlways(newItems) == TRUE

\* runCheck: if (newItems.length > 0) saveNotifiedIds(...)
RunCheckSaves(newItems) == Len(newItems) > 0

(***************************************************************************)
(* Scheduler configuration (libraryNotifications.mjs)                      *)
(***************************************************************************)
IntervalEnvs == {<<>>, <<"0">>, <<"1">>, <<"-", "1">>, <<"x">>,
                 <<"1", ".", "5">>}

LookbackEnvs == {<<>>, <<"1", "6", "9">>}

\* isNaN(intervalHours) || intervalHours < 1
IntervalInvalid(p) == p.nan \/ p.val < 1

\* the configured text is the decimal numeral of a positive integer
IsPositiveInteger(str) ==
    /\ str # <<>>
    /\ \A k \in 1..Len(str) : str[k] \in Digits
    /\ DigitsVal(str, 0) >= 1

(***************************************************************************)
(* State                                                                   *)
(***************************************************************************)
\* A setupLibraryNotifications call: pc is "idle" (not made), "noclient"
\* or "rejected" (returned early), "loading" (awaiting loadNotifiedIds) or
\* "done"; cfg tells, while the call is in flight, whether the configured
\* text is the numeral of a positive integer ("integer") or not ("other");
\* load tells, until the initial check of the call starts, how
\* loadNotifiedIds ended ("ok", "unready" or "readerr").
NoSetup == [pc |-> "idle", hours |-> 0, cfg |-> "none", load |-> "none"]

\* A runCheck call: pc is "idle", "check" (awaiting checkForNewItems of
\* library lib), "send" (awaiting channel.send of page page) or "save"
\* (awaiting saveNotifiedIds); lookups counts the channels.fetch calls the
\* cycle has made.
NoCycle == [pc |-> "idle", gen |-> 0, lib |-> 0, lookups |-> 0,
            fetched |-> {},
            newItems |-> <<>>, page |-> 0, failed |-> {}, end |-> "none",
            saves |-> 0, payload |-> {}]

\* How the most recent runCheck call ended, until the next one starts:
\* "skipped" (returned before the library loop), "threw" (the library list
\* fetch rejected), "partial" (a fetch rejected inside the library loop),
\* "empty" (loop completed, nothing new), "notified" (pages were sent);
\* the number of saveNotifiedIds calls it made; and, for "partial", how many
\* libraries of the list were never checked and how many new items already
\* found were dropped with the rejection.
NoLast == [end |-> "none", saves |-> 0, unchecked |-> 0, dropped |-> 0,
           saved |-> FALSE]

Ended(end, saves) == [NoLast EXCEPT !.end = end, !.saves = saves]

Aborted(cy) == [end |-> "partial", saves |-> cy.saves,
                unchecked |-> catalog.libs - cy.lib,
                dropped |-> Len(cy.newItems), saved |-> FALSE]

NoFetchIn == [n |-> 0, token |-> FALSE, authOk |-> FALSE, r1 |-> "ok",
              reauthOk |-> FALSE, r2 |-> "ok"]

NoFetchOut == FetchResult("none", FALSE, 0, 0, 0)

NoDetectIn == [lib |-> 0, t |-> 0, env |-> <<>>, notified |-> {}]

NoDetectOut == [done |-> FALSE, items |-> <<>>]

NoSaveIn == [n |-> 0, k |-> 0, d |-> 0, resp |-> "err", payload |-> {},
             store |-> {}]

NoSaveOut == [store |-> {}, ret |-> FALSE]

NoTokenIn == [n |-> 0, cached |-> "none", resp |-> "err"]

NoTokenOut == [ret |-> "null", cached |-> "none", requests |-> 0]

\* A waitForVaultReady call: pc is "idle", "poll" (awaiting the health
\* request), "sleep" (awaiting the 500 ms pause), "hung" (the health request
\* never completes) or "done"; elapsed is Date.now() - start, ret the value
\* returned, n the number of calls made.
\* The scheduler of the versions whose setupLibraryNotifications returns
\* {stop, checkNow, getNotifiedCount}: timer is "none" (setup not called),
\* "armed" or "cleared"; now is the clock and due the time the interval timer
\* fires next, in hours; t0 is the time of the setup call; running counts
\* the checkForNewAdditions calls in flight, scheduled and manual the calls
\* started by the interval timer and by checkNow.
NoLegacy == [timer |-> "none", now |-> 0, t0 |-> 0, due |-> 0, running |-> 0,
             scheduled |-> 0, manual |-> 0]

NoWait == [n |-> 0, pc |-> "idle", elapsed |-> 0, polls |-> 0, ret |-> FALSE]

\* In the pipeline the clock reads Now0 and KAVITA_LOOKBACK_HOURS is unset.
PipelineLookbackEnv == <<>>

InFlight == {"check", "send", "save"}

Running == {c \in Slots : cycles[c].pc \in InFlight}

FreeSlots == {c \in Slots : cycles[c].pc \notin InFlight}

\* Everything delivered to the chat channel so far
Sent == sentBefore \cup UNION {sentOk[g] : g \in Gens}

isoVars == <<fixVars, fIn, fOut, dIn, dOut, sIn, sOut, tIn, tOut, wait,
             legacy>>

callVars == <<fIn, fOut, dIn, dOut, sIn, sOut, tIn, tOut, wait>>

\* A run explores one of these: overlapping checks, repeated setup or
\* process restarts over a catalog of one library, one check at a time
\* over a catalog of several libraries, one more setup call in a run that
\* ends before any timer comes due, or one setup and one check at a time
\* over the store left by an earlier run.
Plan(libs, nCycles, nSetups_, nRestarts) ==
    [catalog |-> [items |-> NumItems, libs |-> libs],
     budget |-> [cycles |-> nCycles, setups |-> nSetups_,
                 restarts |-> nRestarts, stored |-> {}]]

\* The store left by an earlier run: the id of the old item, sent and saved
\* when it was recent
OldStore == {1}

Plans == {Plan(1, MaxCycles, 1, 0),
          Plan(1, 1, MaxSetups, 0),
          Plan(1, 1, 1, MaxRestarts),
          Plan(NumLibs, 1, 1, 0),
          Plan(1, 0, MaxSetups + 1, 0),
          [Plan(1, 1, 1, 0) EXCEPT !.budget.stored = OldStore]}

InitProcess ==
    /\ interval = 0
    /\ armed = {}
    /\ timeouts = {}
    /\ nSetups = 0
    /\ setups = [g \in Gens |-> NoSetup]
    /\ notifiedIds = [g \in Gens |-> {}]
    /\ sentOk = [g \in Gens |-> {}]
    /\ jwtToken = FALSE
    /\ cycles = [c \in Slots |-> NoCycle]
    /\ last = NoLast

\* When the first process starts, the store holds what earlier runs sent
\* and saved
InitMain ==
    /\ durable = budget.stored
    /\ sentBefore = budget.stored
    /\ restarts = 0
    /\ InitProcess

InitCalls ==
    /\ fIn = NoFetchIn
    /\ fOut = NoFetchOut
    /\ sIn = NoSaveIn
    /\ sOut = NoSaveOut
    /\ tIn = NoTokenIn
    /\ tOut = NoTokenOut
    /\ wait = NoWait
    /\ legacy = NoLegacy

Init ==
    /\ \E p \in Plans : catalog = p.catalog /\ budget = p.budget
    /\ InitMain
    /\ InitCalls
    /\ dIn = NoDetectIn
    /\ dOut = NoDetectOut

(***************************************************************************)
(* setupLibraryNotifications (part_007, lines 69-98)                       *)
(***************************************************************************)
\* Lines 69-89: the call up to `await loadNotifiedIds()`.
SetupBegin(client, env) ==
    /\ nSetups < budget.setups
    /\ LET g == nSetups + 1
           p == ParseInt(env)
       IN  /\ nSetups' = g
           /\ IF ~client
              THEN /\ setups' = [setups EXCEPT ![g].pc = "noclient"]
                   /\ armed' = armed
              ELSE /\ armed' = IF interval # 0 THEN armed \ {interval}
                               ELSE armed
                   /\ setups' = [setups EXCEPT ![g] =
                         IF IntervalInvalid(p)
                         THEN [NoSetup EXCEPT !.pc = "rejected"]
                         ELSE [NoSetup EXCEPT
                                  !.pc = "loading", !.hours = p.val,
                                  !.cfg = IF IsPositiveInteger(env)
                                          THEN "integer" ELSE "other"]]
    /\ UNCHANGED <<durable, sentBefore, restarts, interval, timeouts,
                   notifiedIds, sentOk, jwtToken, cycles, last, isoVars>>

\* Variant: no initial check is scheduled
ArmInitialNone(pending, g) == pending

\* setTimeout(() => runCheck(discordClient, notifiedIds, 'initial'), 10_000)
\* in setup call g (line 92)
ArmInitial(pending, g) == pending \cup {g}

\* Lines 89-97: loadNotifiedIds resolves, both timers are armed.
SetupFinish(g, k, d, readOk) ==
    /\ setups[g].pc = "loading"
    /\ LET ready == WaitForVaultReady(k, d).ready
       IN  /\ notifiedIds' = [notifiedIds EXCEPT ![g] =
                                 LoadNotifiedIds(ready, readOk, durable)]
           /\ setups' = [setups EXCEPT ![g].pc = "done", ![g].cfg = "none",
                                       ![g].load = LoadStatus(ready, readOk)]
    /\ timeouts' = ArmInitial(timeouts, g)
    /\ interval' = g
    /\ armed' = armed \cup {g}
    /\ UNCHANGED <<durable, sentBefore, restarts, nSetups, sentOk, jwtToken,
                   cycles, last, isoVars>>

(***************************************************************************)
(* runCheck (part_007, lines 42-55) and sendNewItemNotifications           *)
(* (part_017, lines 241-312)                                               *)
(***************************************************************************)
\* Variant: only the ids of the returned list are written
SavePayloadNewOnly(notified, list) == Range(list)

\* saveNotifiedIds([...notifiedIds]) (line 47): the payload is the whole Set
\* at the time of the call, whatever the returned list holds
SavePayload(notified, list) == notified

\* sendNewItemNotifications returns `list` to runCheck (lines 43-47), which
\* calls saveNotifiedIds([...notifiedIds]) or ends; while the save is
\* awaited, newItems holds the returned list.
Returned(cy, list, end, notified) ==
    IF RunCheckSaves(list)
    THEN [cy EXCEPT !.pc = "save", !.end = end, !.saves = cy.saves + 1,
                    !.newItems = list,
                    !.payload = SavePayload(notified, list)]
    ELSE NoCycle

LastAfterReturn(cy, list, end) ==
    IF RunCheckSaves(list) THEN last ELSE Ended(end, cy.saves)

\* Lines 242-252: discordClient.channels.fetch(channelId) is called once
\* NOTIFICATION_CHANNEL_ID is known to be set, before any library is read.
ChannelLookups(channelIdSet) == IF channelIdSet THEN 1 ELSE 0

\* What the environment answers while a cycle starts; an answer that is
\* never asked for is left at its first value.
StartEnvs ==
    {e \in [channelIdSet : BOOLEAN, channelOk : BOOLEAN, f : FetchEnvs,
            empty : BOOLEAN] :
        /\ (~e.channelIdSet => ~e.channelOk)
        /\ (~e.channelOk => ~e.f.authOk)
        /\ (e.f.r1 # "ok" => ~e.empty)}

\* A timer callback calls runCheck(discordClient, notifiedIds, label) for the
\* Set object of setup call g.  sendNewItemNotifications runs lines 242-270:
\* it returns [] when NOTIFICATION_CHANNEL_ID is unset, when the channel
\* fetch fails or when no library is returned, rejects when fetchData
\* rejects, and otherwise enters the library loop.  Neither await on the way
\* reads or writes a notified set.
StartCycle(g, e) ==
    /\ FreeSlots # {}
    /\ Cardinality(Running) < budget.cycles
    /\ LET c == CHOOSE x \in FreeSlots : \A y \in FreeSlots : x <= y
           cy == [NoCycle EXCEPT !.gen = g,
                                 !.lookups = ChannelLookups(e.channelIdSet)]
           f == FetchData(jwtToken, e.f.authOk, e.f.r1, e.f.reauthOk, e.f.r2)
       IN  IF ~e.channelIdSet \/ ~e.channelOk
           THEN /\ cycles' = [cycles EXCEPT ![c] =
                       Returned(cy, <<>>, "skipped", notifiedIds[g])]
                /\ last' = LastAfterReturn(cy, <<>>, "skipped")
                /\ jwtToken' = jwtToken
           ELSE /\ jwtToken' = f.token
                /\ IF f.out = "throw"
                   THEN /\ cycles' = cycles
                        /\ last' = Ended("threw", 0)
                   ELSE IF f.out = "null" \/ e.empty
                   THEN /\ cycles' = [cycles EXCEPT ![c] =
                               Returned(cy, <<>>, "skipped", notifiedIds[g])]
                        /\ last' = LastAfterReturn(cy, <<>>, "skipped")
                   ELSE /\ cycles' = [cycles EXCEPT ![c] =
                               [cy EXCEPT !.pc = "check", !.lib = 1]]
                        /\ last' = NoLast

\* setTimeout(() => runCheck(..., 'initial'), 10_000): all these timeouts
\* have the same delay, so they come due in the order they were set.
FireTimeout(g, e) ==
    /\ g \in timeouts
    /\ \A h \in timeouts : g <= h
    /\ timeouts' = timeouts \ {g}
    /\ setups' = [setups EXCEPT ![g].load = "none"]
    /\ StartCycle(g, e)
    /\ UNCHANGED <<durable, sentBefore, restarts, interval, armed, nSetups,
                   notifiedIds, sentOk, isoVars>>

\* setInterval(() => runCheck(..., 'scheduled'), intervalMs): armed together
\* with the 10 s timeout and with a period of at least an hour, the interval
\* timer of a call comes due only after that call's timeout has fired.
FireInterval(g, e) ==
    /\ g \in armed
    /\ g \notin timeouts
    /\ StartCycle(g, e)
    /\ UNCHANGED <<durable, sentBefore, restarts, interval, armed, timeouts,
                   nSetups, setups, notifiedIds, sentOk, isoVars>>

\* Lines 270-305: checkForNewItems(library.id) ends; after the last library
\* the list is sorted and paged, page 1 is marked and its send starts.
LibraryChecked(c, authOk, r1, reauthOk, r2) ==
    /\ cycles[c].pc = "check"
    /\ LET cy == cycles[c]
           f == FetchData(jwtToken, authOk, r1, reauthOk, r2)
           result == IF f.out = "data" THEN AllSeries ELSE <<>>
           fresh == NewInLibrary(result, cy.lib, Now0, PipelineLookbackEnv,
                                 notifiedIds[cy.gen])
           found == cy.newItems \o fresh
           sorted == SortNewestFirst(found)
           got == IF f.out = "data" THEN cy.fetched \cup {cy.lib}
                  ELSE cy.fetched
       IN  /\ jwtToken' = f.token
           /\ IF f.out = "throw"
              THEN /\ cycles' = [cycles EXCEPT ![c] = NoCycle]
                   /\ last' = Aborted(cy)
                   /\ notifiedIds' = notifiedIds
              ELSE IF cy.lib < catalog.libs
              THEN /\ cycles' = [cycles EXCEPT ![c].lib = cy.lib + 1,
                                               ![c].fetched = got,
                                               ![c].newItems = found]
                   /\ last' = last
                   /\ notifiedIds' = notifiedIds
              ELSE IF found = <<>>
              THEN /\ cycles' = [cycles EXCEPT ![c] =
                          Returned([cy EXCEPT !.lib = cy.lib + 1,
                                              !.fetched = got],
                                   <<>>, "empty", notifiedIds[cy.gen])]
                   /\ last' = LastAfterReturn(cy, <<>>, "empty")
                   /\ notifiedIds' = notifiedIds
              ELSE /\ cycles' = [cycles EXCEPT ![c].pc = "send",
                                               ![c].lib = cy.lib + 1,
                                               ![c].fetched = got,
                                               ![c].newItems = sorted,
                                               ![c].page = 1]
                   /\ last' = last
                   /\ notifiedIds' = [notifiedIds EXCEPT ![cy.gen] =
                          MarkBatch(notifiedIds[cy.gen], Batch(sorted, 1))]
    /\ UNCHANGED <<durable, sentBefore, restarts, interval, armed, timeouts,
                   nSetups, setups, sentOk, isoVars>>

\* Lines 304-311: channel.send of the current page resolves or rejects; the
\* next page is marked and sent, or the whole list is returned to runCheck.
PageSent(c, ok) ==
    /\ cycles[c].pc = "send"
    /\ LET cy == cycles[c]
           ids == Range(Batch(cy.newItems, cy.page))
           isLast == ~MorePages(cy.page, NumBatches(Len(cy.newItems)), ok)
           bad == IF ok THEN cy.failed ELSE cy.failed \cup {cy.page}
           marked == IF isLast THEN notifiedIds[cy.gen]
                     ELSE MarkBatch(notifiedIds[cy.gen],
                                    Batch(cy.newItems, cy.page + 1))
       IN  /\ sentOk' = IF ok THEN [sentOk EXCEPT ![cy.gen] = @ \cup ids]
                        ELSE sentOk
           /\ notifiedIds' = [notifiedIds EXCEPT ![cy.gen] = marked]
           /\ IF ~isLast
              THEN /\ cycles' = [cycles EXCEPT ![c].failed = bad,
                                               ![c].page = cy.page + 1]
                   /\ last' = last
              ELSE /\ cycles' = [cycles EXCEPT ![c] =
                          Returned([cy EXCEPT !.failed = bad], cy.newItems,
                                   "notified", marked)]
                   /\ last' = LastAfterReturn(cy, cy.newItems, "notified")
    /\ UNCHANGED <<durable, sentBefore, restarts, interval, armed, timeouts,
                   nSetups, setups, jwtToken, isoVars>>

\* saveNotifiedIds (initVault.mjs lines 275-308) ends and runCheck returns.
SaveDone(c, k, d, resp) ==
    /\ cycles[c].pc = "save"
    /\ LET ready == WaitForVaultReady(k, d).ready
           r == SaveNotifiedIds(ready, resp, cycles[c].payload, durable)
       IN  /\ durable' = r.store
           /\ last' = [Ended(cycles[c].end, cycles[c].saves)
                          EXCEPT !.saved = r.ret]
    /\ cycles' = [cycles EXCEPT ![c] = NoCycle]
    /\ UNCHANGED <<sentBefore, restarts, interval, armed, timeouts, nSetups,
                   setups, notifiedIds, sentOk, jwtToken, isoVars>>

(***************************************************************************)
(* Environment                                                             *)
(***************************************************************************)
\* The process stops and a new one starts: memory and timers are lost, the
\* store and the channel history remain.
Restart ==
    /\ restarts < budget.restarts
    /\ restarts' = restarts + 1
    /\ sentBefore' = Sent
    /\ interval' = 0
    /\ armed' = {}
    /\ timeouts' = {}
    /\ nSetups' = 0
    /\ setups' = [g \in Gens |-> NoSetup]
    /\ notifiedIds' = [g \in Gens |-> {}]
    /\ sentOk' = [g \in Gens |-> {}]
    /\ jwtToken' = FALSE
    /\ cycles' = [c \in Slots |-> NoCycle]
    /\ last' = NoLast
    /\ UNCHANGED <<durable, isoVars>>

Next ==
    \/ \E client \in BOOLEAN, env \in IntervalEnvs : SetupBegin(client, env)
    \/ \E g \in Gens, v \in VaultEnvs : SetupFinish(g, v.k, v.d, v.ok)
    \/ \E g \in Gens, e \in StartEnvs : FireTimeout(g, e)
    \/ \E g \in Gens, e \in StartEnvs : FireInterval(g, e)
    \/ \E c \in Slots, e \in FetchEnvs :
          LibraryChecked(c, e.authOk, e.r1, e.reauthOk, e.r2)
    \/ \E c \in Slots, ok \in BOOLEAN : PageSent(c, ok)
    \/ \E c \in Slots, v \in SaveEnvs : SaveDone(c, v.k, v.d, v.resp)
    \/ Restart

Spec == Init /\ [][Next]_vars

(***************************************************************************)
(* fetchData on its own: a sequence of calls on one KavitaAPI instance     *)
(***************************************************************************)
FetchCall(authOk, r1, reauthOk, r2) ==
    /\ fIn.n < MaxFetchCalls
    /\ fIn' = [n |-> fIn.n + 1, token |-> fOut.token, authOk |-> authOk,
               r1 |-> r1, reauthOk |-> reauthOk, r2 |-> r2]
    /\ fOut' = FetchData(fOut.token, authOk, r1, reauthOk, r2)
    /\ UNCHANGED <<mainVars, dIn, dOut, sIn, sOut, tIn, tOut, wait, legacy>>

\* getVaultToken on its own: a sequence of calls in one process
TokenCall(resp) ==
    /\ tIn.n < MaxFetchCalls
    /\ tIn' = [n |-> tIn.n + 1, cached |-> tOut.cached, resp |-> resp]
    /\ tOut' = GetVaultToken(tOut.cached, resp)
    /\ UNCHANGED <<mainVars, dIn, dOut, sIn, sOut, fIn, fOut, wait, legacy>>

NextFetch ==
    \/ \E authOk \in BOOLEAN, r1 \in Responses, reauthOk \in BOOLEAN,
          r2 \in Responses : FetchCall(authOk, r1, reauthOk, r2)
    \/ \E resp \in TokenResponses : TokenCall(resp)

SpecFetch == Init /\ [][NextFetch]_vars

(***************************************************************************)
(* The library loop's selection on its own                                 *)
(***************************************************************************)
DetectClocks == {Now0, Now0 + 1}

DetectNotified == SUBSET {1, 1 + NumLibs, NumItems}

InitDetect ==
    /\ catalog = [items |-> NumItems, libs |-> NumLibs]
    /\ budget = [cycles |-> 0, setups |-> 0, restarts |-> 0, stored |-> {}]
    /\ InitMain
    /\ InitCalls
    /\ dIn \in [lib : Libs, t : DetectClocks, env : LookbackEnvs,
                notified : DetectNotified]
    /\ dOut = NoDetectOut

DetectCall ==
    /\ ~dOut.done
    /\ dOut' = [done |-> TRUE,
                items |-> NewInLibrary(AllSeries, dIn.lib, dIn.t, dIn.env,
                                       dIn.notified)]
    /\ UNCHANGED <<mainVars, fIn, fOut, dIn, sIn, sOut, tIn, tOut, wait,
                   legacy>>

NextDetect == DetectCall

SpecDetect == InitDetect /\ [][NextDetect]_vars

(***************************************************************************)
(* saveNotifiedIds on its own: a sequence of calls against one store       *)
(***************************************************************************)
SavePayloads == {{}, {1}, {1, 2}}

SaveCall(k, d, resp, payload) ==
    /\ sIn.n < MaxSaveCalls
    /\ sIn' = [n |-> sIn.n + 1, k |-> k, d |-> d, resp |-> resp,
               payload |-> payload, store |-> sOut.store]
    /\ sOut' = SaveNotifiedIds(WaitForVaultReady(k, d).ready, resp, payload,
                               sOut.store)
    /\ UNCHANGED <<mainVars, fIn, fOut, dIn, dOut, tIn, tOut, wait, legacy>>

NextSave ==
    \E k \in 0..MaxPolls, d \in PollLatencies, resp \in SaveResponses,
       payload \in SavePayloads : SaveCall(k, d, resp, payload)

SpecSave == Init /\ [][NextSave]_vars

(***************************************************************************)
(* waitForVaultReady on its own, step by step (initVault.mjs, lines        *)
(* 172-203)                                                                *)
(***************************************************************************)
\* How long an answered health request takes, in ms
WaitLatencies == {0, VaultPollMs, VaultTimeoutMs - VaultPollMs}

\* Lines 173-178: start = Date.now(); the loop test holds at once
WaitBegin ==
    /\ wait.pc \in {"idle", "done"}
    /\ wait.n < MaxWaitCalls
    /\ wait' = [NoWait EXCEPT !.n = wait.n + 1,
                              !.pc = IF 0 < VaultTimeoutMs THEN "poll"
                                     ELSE "done"]
    /\ UNCHANGED <<mainVars, fIn, fOut, dIn, dOut, sIn, sOut, tIn, tOut,
                   legacy>>

\* Lines 179-196: axios.get(healthEndpoint) resolves or rejects after d ms;
\* the call returns true when the answer reports every database online.
PollAnswered(healthy, d) ==
    /\ wait.pc = "poll"
    /\ wait' = [wait EXCEPT !.elapsed = wait.elapsed + d,
                            !.polls = wait.polls + 1,
                            !.pc = IF healthy THEN "done" ELSE "sleep",
                            !.ret = healthy]
    /\ UNCHANGED <<mainVars, fIn, fOut, dIn, dOut, sIn, sOut, tIn, tOut,
                   legacy>>

\* Line 180: the request is made without a timeout of its own; a service
\* that accepts the connection and never answers leaves the await pending.
PollNeverAnswered ==
    /\ wait.pc = "poll"
    /\ wait' = [wait EXCEPT !.pc = "hung", !.polls = wait.polls + 1]
    /\ UNCHANGED <<mainVars, fIn, fOut, dIn, dOut, sIn, sOut, tIn, tOut,
                   legacy>>

\* Lines 198 and 178, 201-202: the pause ends and the loop test is made
SleepDone ==
    /\ wait.pc = "sleep"
    /\ LET t == wait.elapsed + VaultPollMs
       IN  wait' = [wait EXCEPT !.elapsed = t,
                                !.pc = IF t < VaultTimeoutMs THEN "poll"
                                       ELSE "done"]
    /\ UNCHANGED <<mainVars, fIn, fOut, dIn, dOut, sIn, sOut, tIn, tOut,
                   legacy>>

NextWait ==
    \/ WaitBegin
    \/ \E healthy \in BOOLEAN, d \in WaitLatencies : PollAnswered(healthy, d)
    \/ PollNeverAnswered
    \/ SleepDone

\* Timers and continuations of the event loop run when they are due
SpecWait == Init /\ [][NextWait]_vars /\ WF_vars(NextWait)

(***************************************************************************)
(* The scheduler with a handle (libraryNotifications.mjs lines 70-216,     *)
(* part_005, part_006)                                                     *)
(***************************************************************************)
\* CHECK_INTERVAL, in hours
LegacyPeriodHours == 12

\* Variant: a check re-arms the interval timer from the time it starts
CheckForNewAdditionsRearm(l) ==
    [l EXCEPT !.running = l.running + 1,
              !.due = IF l.timer = "armed" THEN l.now + LegacyPeriodHours
                      ELSE l.due]

\* checkForNewAdditions() is called (lines 114-181): one more check is in
\* flight; its body never refers to `interval`
CheckForNewAdditions(l) == [l EXCEPT !.running = l.running + 1]

\* Lines 183-187: setInterval(checkForNewAdditions, CHECK_INTERVAL), then
\* the immediate check
LegacySetup ==
    /\ legacy.timer = "none"
    /\ legacy' = CheckForNewAdditions(
                     [legacy EXCEPT !.timer = "armed", !.t0 = legacy.now,
                                    !.due = legacy.now + LegacyPeriodHours])
    /\ UNCHANGED <<mainVars, callVars>>

\* The interval timer fires
LegacyTick ==
    /\ legacy.timer = "armed"
    /\ legacy.now = legacy.due
    /\ legacy' = CheckForNewAdditions(
                     [legacy EXCEPT !.due = legacy.due + LegacyPeriodHours,
                                    !.scheduled = legacy.scheduled + 1])
    /\ UNCHANGED <<mainVars, callVars>>

\* checkNow: checkForNewAdditions (line 205), called on the returned handle
LegacyCheckNow ==
    /\ legacy.timer # "none"
    /\ legacy.manual < MaxManual
    /\ legacy' = CheckForNewAdditions(
                     [legacy EXCEPT !.manual = legacy.manual + 1])
    /\ UNCHANGED <<mainVars, callVars>>

\* A check in flight returns (lines 116-180: every path ends the call)
LegacyCheckEnds ==
    /\ legacy.running > 0
    /\ legacy' = [legacy EXCEPT !.running = legacy.running - 1]
    /\ UNCHANGED <<mainVars, callVars>>

\* stop: () => clearInterval(interval) (line 196)
LegacyStop ==
    /\ legacy.timer = "armed"
    /\ legacy' = [legacy EXCEPT !.timer = "cleared"]
    /\ UNCHANGED <<mainVars, callVars>>

\* An hour passes; an armed timer fires when it is due
LegacyHour ==
    /\ legacy.now < MaxHours
    /\ legacy.timer = "armed" => legacy.now < legacy.due
    /\ legacy' = [legacy EXCEPT !.now = legacy.now + 1]
    /\ UNCHANGED <<mainVars, callVars>>

NextLegacy ==
    \/ LegacySetup
    \/ LegacyTick
    \/ LegacyCheckNow
    \/ LegacyCheckEnds
    \/ LegacyStop
    \/ LegacyHour

SpecLegacy == Init /\ [][NextLegacy]_vars

(***************************************************************************)
(* Properties                                                              *)
(***************************************************************************)
\* The ids of the page whose send is awaited by cycle c
PageIds(c) == Range(Batch(cycles[c].newItems, cycles[c].page))

\* This step is the successful end of the send awaited by cycle c
SendSucceeded(c) ==
    /\ cycles[c].pc = "send"
    /\ cycles'[c].pc \in {"send", "save"}
    /\ cycles'[c] # cycles[c]
    /\ cycles[c].page \notin cycles'[c].failed

\* C1: each catalog item id is sent to the chat channel at most once, over
\* any sequence of cycles and process restarts: a page whose send succeeds
\* holds no id that was already delivered.
C1_SentAtMostOnce ==
    [][\A c \in Slots : SendSucceeded(c) => PageIds(c) \cap Sent = {}]_vars

\* The ids of the pages of cycle c whose send failed
FailedIds(c) ==
    UNION {Range(Batch(cycles[c].newItems, p)) : p \in cycles[c].failed}

\* C2: an id is added to the in-memory notified set only after the send of
\* its page succeeded: the ids of a page whose send failed are neither in
\* the in-memory set of the cycle nor in the set runCheck persists.
C2_MarkedOnlyAfterSend ==
    \A c \in Slots :
        /\ cycles[c].pc \in {"send", "save"}
              => FailedIds(c) \cap notifiedIds[cycles[c].gen] = {}
        /\ cycles[c].pc = "save" => FailedIds(c) \cap cycles[c].payload = {}

\* C3: at most one cycle is in flight at any time.
C3_AtMostOneCycle == Cardinality(Running) <= 1

\* The items the library loop of cycle c selects in this step
NewlySelected(c) ==
    IF cycles[c].pc = "check"
    THEN Range(cycles'[c].newItems) \ Range(cycles[c].newItems)
    ELSE {}

\* C4 as stated: within one process lifetime, an item that was part of a
\* successfully sent page is never selected again by a later detection.
C4_NeverReselectedInProcess ==
    [][\A c \in Slots :
          NewlySelected(c) \cap UNION {sentOk[g] : g \in Gens} = {}]_vars

\* C4 amended: among the cycles that work on the notified Set object of one
\* setupLibraryNotifications call, an item that was part of a successfully
\* sent page is never selected again by a later detection.
C4_NeverReselectedInSet ==
    [][\A c \in Slots :
          cycles[c].pc = "check"
             => NewlySelected(c) \cap sentOk[cycles[c].gen] = {}]_vars

C4_Witness ==
    \E c \in Slots :
        /\ cycles[c].pc = "check"
        /\ \E i \in sentOk[cycles[c].gen] :
              /\ LibOf(i) \in cycles[c].fetched
              /\ i \notin Range(cycles[c].newItems)

\* C5: whatever way the fetch of one library fails, the cycle still checks
\* every other library and keeps the new items of the libraries whose fetch
\* succeeded.
C5_FailureIsolated ==
    last.end = "partial" => (last.unchecked = 0 /\ last.dropped = 0)

\* This step is the end of loadNotifiedIds in setup call g
LoadEnds(g) == setups[g].pc = "loading" /\ setups'[g].pc = "done"

\* C6: when the health check of the secrets service never succeeds or the
\* read fails, loadNotifiedIds yields an empty set and the setup call goes
\* on to schedule the initial check and to arm the interval timer.
C6_FailOpenLoad ==
    [][\A g \in Gens :
          (LoadEnds(g) /\ setups'[g].load \in {"unready", "readerr"})
             => /\ notifiedIds'[g] = {}
                /\ g \in timeouts'
                /\ g \in armed'
                /\ interval' = g]_vars

C6_Witness ==
    \E g \in Gens :
        /\ setups[g].load = "unready"
        /\ durable # {}
        /\ notifiedIds[g] = {}
        /\ g \in timeouts
        /\ g \in armed

\* C7: a cycle whose detection yields no new item never calls
\* saveNotifiedIds.
C7_NoSaveWithoutNewItems ==
    /\ \A c \in Slots : cycles[c].saves > 0 => cycles[c].newItems # <<>>
    /\ last.end \in {"skipped", "threw", "partial", "empty"}
          => last.saves = 0

C7_Witness == last.end = "empty" /\ last.saves = 0

\* The items of library lib that the catalog holds
InLibrary(lib) == {i \in 1..catalog.items : LibOf(i) = lib}

\* C8: an item returned by a library fetch is selected as new if and only
\* if it was created at or after now minus the lookback window and its id
\* is not in the notified set; an item created exactly at the cutoff is
\* selected and an older one is not.
C8_SelectedIffRecentAndUnnotified ==
    dOut.done =>
        LET cutoff == dIn.t - LookbackHours(dIn.env)
            selected == Range(dOut.items)
        IN  /\ selected = {i \in InLibrary(dIn.lib) :
                              Created(i) >= cutoff /\ i \notin dIn.notified}
            /\ \A i \in InLibrary(dIn.lib) :
                  /\ (Created(i) = cutoff /\ i \notin dIn.notified)
                        => i \in selected
                  /\ Created(i) < cutoff => i \notin selected

C8_Witness ==
    /\ dOut.done
    /\ \E i \in Range(dOut.items) :
          Created(i) = dIn.t - LookbackHours(dIn.env)
    /\ \E j \in InLibrary(dIn.lib) \ dIn.notified :
          /\ Created(j) < dIn.t - LookbackHours(dIn.env)
          /\ j \notin Range(dOut.items)

\* The request of the isolated fetchData call was answered with a 401
Got401 == (fIn.token \/ fIn.authOk) /\ fIn.r1 = "401"

\* C9 as stated: on a 401 the call re-authenticates exactly once and retries
\* exactly once, a failed retry reaches the caller as an error, any other
\* failure causes no retry and no re-authentication, and the call makes at
\* most two requests.
C9_OneReauthOneRetry ==
    fOut.out # "none" =>
        /\ Got401 => (fOut.reauths = 1 /\ fOut.requests = 2)
        /\ (Got401 /\ fIn.r2 # "ok") => fOut.out = "throw"
        /\ ~Got401 => (fOut.reauths = 0 /\ fOut.requests <= 1)
        /\ fOut.requests <= 2

\* C9 amended: on a 401 the call re-authenticates exactly once and, only if
\* that re-authentication succeeded, retries exactly once; a failed retry
\* reaches the caller as an error; any other failure causes no retry and no
\* re-authentication; the call makes at most two requests.
C9_OneReauthRetryIfReauthOk ==
    fOut.out # "none" =>
        /\ Got401 => fOut.reauths = 1
        /\ (Got401 /\ fIn.reauthOk) => fOut.requests = 2
        /\ (Got401 /\ ~fIn.reauthOk)
              => (fOut.requests = 1 /\ fOut.out = "null")
        /\ (Got401 /\ fIn.reauthOk /\ fIn.r2 # "ok") => fOut.out = "throw"
        /\ ~Got401 => (fOut.reauths = 0 /\ fOut.requests <= 1)
        /\ fOut.requests <= 2

C9_Witness ==
    /\ Got401
    /\ fIn.reauthOk
    /\ fOut.out = "throw"
    /\ fOut.reauths = 1
    /\ fOut.requests = 2

\* C10: when CHECK_INTERVAL_HOURS is missing, not numeric or not a positive
\* integer, the setup call schedules no initial check and arms no timer.
C10_InvalidIntervalNotRunning ==
    [][\A g \in Gens :
          setups[g].cfg = "other"
             => (g \notin timeouts' /\ g \notin armed')]_vars

\* C11: no failure of a collaborator makes a cycle end with an uncaught
\* exception: runCheck never rejects.
C11_RunCheckNeverRejects == last.end \notin {"threw", "partial"}

\* This step is the failed end of the send awaited by cycle c
SendFailed(c) ==
    /\ cycles[c].pc = "send"
    /\ cycles[c].page \in cycles'[c].failed

\* C12: when the send of a page fails, the send of the next page of the
\* same cycle is still attempted, up to the last page.
C12_LaterPagesAttempted ==
    [][\A c \in Slots :
          (SendFailed(c) /\ cycles[c].page < NumBatches(Len(cycles[c].newItems)))
             => /\ cycles'[c].pc = "send"
                /\ cycles'[c].page = cycles[c].page + 1
                /\ cycles'[c].newItems = cycles[c].newItems]_vars

C12_Witness ==
    \E c \in Slots :
        /\ cycles[c].pc = "send"
        /\ cycles[c].page = 2
        /\ 1 \in cycles[c].failed

\* A poll of the isolated save call is healthy before the timeout elapses
SaveReady ==
    /\ sIn.k >= 1
    /\ (sIn.k - 1) * (sIn.d + VaultPollMs) < VaultTimeoutMs

\* C13: saveNotifiedIds never throws: it returns false when the health
\* check times out, when the request fails and when the response does not
\* report success, and true only when the write was made and acknowledged.
C13_SaveReturnsBoolean ==
    sIn.n > 0 =>
        /\ sOut.ret \in BOOLEAN
        /\ ~SaveReady => (~sOut.ret /\ sOut.store = sIn.store)
        /\ sIn.resp \in {"err", "nack"} => ~sOut.ret
        /\ sOut.ret => (SaveReady /\ sIn.resp = "ack"
                        /\ sOut.store = sIn.payload)

C13_Witness ==
    /\ sIn.n > 0
    /\ SaveReady
    /\ sIn.resp = "nack"
    /\ sIn.payload # sIn.store
    /\ ~sOut.ret

\* This step ends cycle c, the only one in flight, after a library loop
\* that found nothing new: runCheck returns without calling saveNotifiedIds
EndsUnsaved(c) ==
    /\ Running = {c}
    /\ cycles[c].pc = "check"
    /\ cycles'[c].pc = "idle"
    /\ last'.end = "empty"

\* C14: after a cycle whose save failed the marks stay in memory and the
\* next cycle attempts the save again: no cycle ends without a save while
\* its notified set holds ids that the store lacks.
C14_SaveRetriedNextCycle ==
    [][\A c \in Slots :
          EndsUnsaved(c) => notifiedIds[cycles[c].gen] \subseteq durable]_vars

\* The Set object of the setup call whose interval timer was armed last
CurrentSet == IF interval = 0 THEN {} ELSE notifiedIds[interval]

\* C15 as stated: within a process lifetime the in-memory notified set
\* only grows, over every step of every operation, repeated setup included.
C15_SetOnlyGrows ==
    [][restarts' = restarts => CurrentSet \subseteq CurrentSet']_vars

\* C15 amended: within a process lifetime the Set object of each setup call
\* only grows, over every step of every operation.
C15_EachSetOnlyGrows ==
    [][restarts' = restarts
          => \A g \in Gens : notifiedIds[g] \subseteq notifiedIds'[g]]_vars

C15_Witness ==
    \E c \in Slots :
        /\ cycles[c].pc = "save"
        /\ cycles[c].failed # {}
        /\ Range(cycles[c].newItems) \subseteq notifiedIds[cycles[c].gen]
        /\ Len(cycles[c].newItems) > PageSize

\* The scheduler is stopped: a setup call armed the interval timer, the
\* timer has been cleared since and no setup call is on its way to arm one
Stopped ==
    /\ interval # 0
    /\ armed = {}
    /\ \A g \in Gens : setups[g].pc # "loading"

\* C16: once the scheduler is stopped (its timer cleared) no further cycle
\* starts in that process: no timer callback calls runCheck any more.
C16_NoCycleStartsAfterStop ==
    [][(Stopped /\ restarts' = restarts) => timeouts' = timeouts]_vars

\* The ids of the pages of cycle c whose send succeeded, once all pages
\* have been attempted
DeliveredIds(c) ==
    UNION {Range(Batch(cycles[c].newItems, p)) :
              p \in (1..NumBatches(Len(cycles[c].newItems))) \ cycles[c].failed}

\* C17: the list sendNewItemNotifications returns to runCheck holds exactly
\* the items whose page was sent successfully in that cycle; the items of a
\* page whose send failed are not in it.
C17_ReturnsSentItems ==
    \A c \in Slots :
        cycles[c].pc = "save"
            => /\ Range(cycles[c].newItems) = DeliveredIds(c)
               /\ Range(cycles[c].newItems) \cap FailedIds(c) = {}

\* C18: while a token is cached, getVaultToken returns the cached token,
\* makes no token request and leaves the cache as it is; with jwtToken set,
\* fetchData makes no authenticate call before the request.
C18_CachedTokenReused ==
    /\ (tIn.n > 0 /\ tIn.cached # "none")
          => /\ tOut.ret = tIn.cached
             /\ tOut.cached = tIn.cached
             /\ tOut.requests = 0
    /\ (fIn.n > 0 /\ fIn.token)
          => /\ fOut.auths = 0
             /\ (fIn.r1 # "401" => fOut.token = fIn.token)

C18_Witness ==
    /\ tIn.n = 2
    /\ tIn.cached = "t1"
    /\ tIn.resp = "t2"
    /\ tOut.ret = "t1"
    /\ fIn.n = 2
    /\ fIn.token
    /\ fOut.out = "data"
    /\ fOut.requests = 1

\* This step is the end of a cycle c whose store write succeeded
SaveSucceeded(c) ==
    /\ cycles[c].pc = "save"
    /\ cycles'[c].pc = "idle"
    /\ last'.saved

CycleStarts(c) == cycles[c].pc \notin InFlight /\ cycles'[c].pc \in InFlight

\* C20: every setup call that gets an answer from the store starts from the
\* stored set, whatever the Sets of earlier calls hold, and leaves those Sets
\* alone; a cycle started by the initial timeout of a call works on the Set
\* of that call, and a cycle started by the interval timer works on the Set
\* of the call whose timer is armed.
C20_SetupReloadsFromStore ==
    [][/\ \A g \in Gens :
             (LoadEnds(g) /\ setups'[g].load = "ok")
                => /\ notifiedIds'[g] = durable
                   /\ \A h \in Gens \ {g} : notifiedIds'[h] = notifiedIds[h]
       /\ \A c \in Slots :
             (CycleStarts(c) /\ restarts' = restarts)
                => IF timeouts' = timeouts
                   THEN cycles'[c].gen \in armed
                   ELSE timeouts' = timeouts \ {cycles'[c].gen}]_vars

C20_Witness ==
    \E c \in Slots :
        /\ cycles[c].gen = 2
        /\ cycles[c].pc = "send"
        /\ Range(cycles[c].newItems) \cap notifiedIds[1] # {}
        /\ Range(cycles[c].newItems) \cap durable = {}

\* C21: no cycle armed by a setup call starts before the load of that call
\* has completed; the step that completes the load schedules the one
\* initial check of the call and arms its interval timer, and an initial
\* check is scheduled by no other step.
C21_LoadThenArmOnce ==
    [][/\ \A c \in Slots :
             CycleStarts(c) => setups[cycles'[c].gen].pc = "done"
       /\ \A g \in Gens :
             /\ LoadEnds(g) => /\ g \notin timeouts
                               /\ g \notin armed
                               /\ timeouts' = timeouts \cup {g}
                               /\ g \in armed'
             /\ (g \in timeouts' /\ g \notin timeouts) => LoadEnds(g)
             /\ (g \in armed' /\ g \notin armed) => LoadEnds(g)]_vars

C21_Witness ==
    \E g \in Gens :
        /\ setups[g].pc = "done"
        /\ setups[g].load = "ok"
        /\ timeouts = {g}
        /\ armed = {g}
        /\ Running = {}
        /\ last.end = "none"

\* This step ends cycle c with a detection that found no new item
EndsEmpty(c) ==
    /\ cycles[c].pc = "check"
    /\ cycles'[c].pc = "idle"
    /\ last'.end = "empty"

\* C22: a cycle whose detection finds no new item has not accessed the
\* channel (no channel lookup, no send) and writes nothing to the store.
C22_NoChannelAccessWhenEmpty ==
    [][\A c \in Slots :
          EndsEmpty(c) => /\ cycles[c].lookups = 0
                          /\ sentOk' = sentOk
                          /\ last'.saves = 0
                          /\ durable' = durable]_vars

RECURSIVE ConcatBatches(_, _)
\* The first n pages of list s, one after the other
ConcatBatches(s, n) ==
    IF n = 0 THEN <<>> ELSE ConcatBatches(s, n - 1) \o Batch(s, n)

NewestFirst(s) ==
    \A i, j \in 1..Len(s) : i < j => Created(s[i]) >= Created(s[j])

\* C23: the list that is paged holds the detected items, each once, newest
\* first; its pages in send order make up that list, every page holds at
\* most ten items and every page but the last exactly ten; the pages are
\* sent one at a time, page i + 1 only once the send of page i has ended,
\* and the cycle goes on to the save only after its last page.
C23_PagesInOrder ==
    [][\A c \in Slots :
          LET cy == cycles[c]
              ny == cycles'[c]
              n == Len(ny.newItems)
              nb == NumBatches(n)
          IN  /\ (cy.pc = "check" /\ ny.pc = "send")
                    => /\ Range(cy.newItems) \subseteq Range(ny.newItems)
                       /\ \A i \in Range(ny.newItems) \ Range(cy.newItems) :
                             LibOf(i) = cy.lib
                       /\ Cardinality(Range(ny.newItems)) = n
                       /\ NewestFirst(ny.newItems)
                       /\ ConcatBatches(ny.newItems, nb) = ny.newItems
                       /\ \A p \in 1..nb :
                             /\ Len(Batch(ny.newItems, p)) <= PageSize
                             /\ p < nb => Len(Batch(ny.newItems, p)) = PageSize
                       /\ ny.page = 1
              /\ (cy.pc = "send" /\ ny.pc = "send")
                    => /\ ny.newItems = cy.newItems
                       /\ ny.page \in {cy.page, cy.page + 1}
                       /\ ny.page <= nb
              /\ (cy.pc = "send" /\ ny.pc = "save")
                    => /\ ny.newItems = cy.newItems
                       /\ cy.page = nb]_vars

C23_Witness ==
    \E c \in Slots :
        /\ catalog.libs > 1
        /\ cycles[c].pc = "send"
        /\ cycles[c].page = 2
        /\ Len(cycles[c].newItems) > PageSize
        /\ cycles[c].newItems[1] = catalog.items
        /\ cycles[c].failed = {}

\* This step ends a cycle before its library loop: the channel is missing,
\* or the fetch of the library list failed or returned no library
EndsBeforeLoop ==
    /\ \E c \in Slots : cycles[c].pc \notin InFlight
    /\ cycles' = cycles
    /\ restarts' = restarts
    /\ \A g \in Gens : setups'[g].pc = setups[g].pc
    /\ \/ timeouts' # timeouts
       \/ last' # last
    /\ last'.end \in {"skipped", "threw"}

\* C24: a cycle whose fetch of the library list fails or returns no library
\* produces no item, sends nothing, saves nothing and ends normally.
C24_ListFailureEndsNormally ==
    [][EndsBeforeLoop => /\ last'.end = "skipped"
                         /\ last'.saves = 0
                         /\ sentOk' = sentOk
                         /\ notifiedIds' = notifiedIds
                         /\ durable' = durable]_vars

\* C25: every waitForVaultReady call returns: with true at the first
\* healthy poll, with false once the timeout has passed without one.
C25_WaitTerminates == (wait.pc = "poll") ~> (wait.pc = "done")

\* This step is a manual trigger
ManualTrigger == legacy'.manual = legacy.manual + 1

\* C26: a manual trigger starts one check and leaves the interval timer as
\* it is, armed or cleared, with the time it fires next unchanged; whatever
\* the manual triggers, the timer fires a whole number of periods after the
\* setup call, once per period.
C26_CheckNowLeavesTimer ==
    [][/\ ManualTrigger => /\ legacy'.running = legacy.running + 1
                           /\ legacy'.timer = legacy.timer
                           /\ legacy'.due = legacy.due
                           /\ legacy'.scheduled = legacy.scheduled
                           /\ legacy'.now = legacy.now
       /\ legacy'.timer = "armed"
             => legacy'.due = legacy'.t0
                                 + (legacy'.scheduled + 1) * LegacyPeriodHours
      ]_vars

C26_Witness ==
    /\ legacy.timer = "armed"
    /\ legacy.manual = 1
    /\ legacy.scheduled = 1
    /\ legacy.running = 2
    /\ legacy.now > legacy.t0 + LegacyPeriodHours
    /\ legacy.due = legacy.t0 + 2 * LegacyPeriodHours

\* C27: across any sequence of setupLibraryNotifications calls in one
\* process, at most one interval timer is armed at any time.
C27_AtMostOneIntervalTimer == Cardinality(armed) <= 1

\* C28: a cycle that starts after a later setup call has completed works on
\* the Set loaded by the most recently completed call; the pending initial
\* timeout of an earlier call starts no cycle on the earlier call's Set.
C28_CyclesUseLatestSet ==
    [][\A c \in Slots :
          (CycleStarts(c) /\ restarts' = restarts /\ armed = {interval})
              => cycles'[c].gen = interval]_vars

\* C29: no save removes an id from the durable set, a save after a load
\* that failed open to the empty set included.
C29_SaveNeverRemoves == [][durable \subseteq durable']_vars

\* This step is a setup call g that returns at the validity test
RejectedCall(g) == setups[g].pc = "idle" /\ setups'[g].pc = "rejected"

\* C30: a setup call arms timers only when the client is present and the
\* parsed interval is a positive integer; a call with an invalid interval
\* made while an interval timer of an earlier call is armed leaves no
\* interval timer armed.
C30_InvalidResetupDisarms ==
    [][\A g \in Gens :
          /\ (g \in armed' \/ g \in timeouts')
                => (setups'[g].pc = "done" /\ setups'[g].hours >= 1)
          /\ (RejectedCall(g) /\ armed # {}) => armed' = {}]_vars


====
